---------------------------- MODULE Spec2Model ----------------------------
(***************************************************************************)
(* A model of the code-editing agent: the tool-calling conversation loop   *)
(* (Agent.Run, Agent.executeTool, Agent.runInference) and the three file   *)
(* tools it dispatches to (read_file, list_files, edit_file).              *)
(*                                                                         *)
(* Texts are sequences of atoms.  An atom is either a single character or  *)
(* a chunk of characters in which no searched word starts, ends or lies;   *)
(* the words strings.Contains looks for are spelled character by character *)
(* wherever they occur, so a search is an exact contiguous match.          *)
(***************************************************************************)
EXTENDS Integers, Sequences, FiniteSets, TLC

VARIABLES
    tools,               \* the agent's tools field, set by NewAgent
    conversation,        \* Run's local slice of chat messages
    pc,                  \* where Run stands: "read", "infer", "tools", "returned", "panicked"
    pending,             \* resp.ToolCalls still to be executed by the range loop
    allToolsSuccessful,  \* Run's local flag of the current batch
    returned,            \* what Run returned: "none" (still running), "nil", "error"
    display,             \* the last assistant text written to the terminal
    fs,                  \* the file system the tools act on
    nRead,               \* lines of user input read so far
    nInfer,              \* inference calls made so far
    nCalls,              \* tool calls issued by the backend so far (ids are 1..nCalls)
    hist                 \* history of the current user turn (observation only)

vars == <<tools, conversation, pc, pending, allToolsSuccessful, returned, display,
          fs, nRead, nInfer, nCalls, hist>>

----------------------------------------------------------------------------
(* Bounds of the model *)

MaxInputs == 11

MaxToolCalls == 2

MaxBatch == 2

----------------------------------------------------------------------------
(* Text helpers *)

W_error == <<"e", "r", "r", "o", "r">>

W_failed == <<"f", "a", "i", "l", "e", "d">>

W_cannot == <<"c", "a", "n", "n", "o", "t">>

\* strings.Contains(s, sub)
Contains(s, sub) ==
    \E i \in 0..(Len(s) - Len(sub)) : SubSeq(s, i + 1, i + Len(sub)) = sub

\* strings.Replace(s, old, new, -1)
RECURSIVE Replace(_, _, _)
Replace(s, old, new) ==
    IF old = <<>>
    THEN IF s = <<>> THEN new
         ELSE new \o <<Head(s)>> \o Replace(Tail(s), old, new)
    ELSE IF Len(s) < Len(old) THEN s
    ELSE IF SubSeq(s, 1, Len(old)) = old
         THEN new \o Replace(SubSeq(s, Len(old) + 1, Len(s)), old, new)
         ELSE <<Head(s)>> \o Replace(Tail(s), old, new)

----------------------------------------------------------------------------
(* The file system: a tree of depth two under the working directory.  A    *)
(* path is the sequence of its components; <<>> is the empty string and    *)
(* Dot is ".".                                                             *)

Names == <<"a.txt", "d", "n.txt">>

NameSet == {Names[i] : i \in 1..Len(Names)}

Dot == <<".">>

Paths == {<<n>> : n \in NameSet} \cup {<<n, m>> : n \in NameSet, m \in NameSet}

NoNode == [kind |-> "none", content |-> <<>>, ro |-> FALSE]

DirNode == [kind |-> "dir", content |-> <<>>, ro |-> FALSE]

FileNode(c) == [kind |-> "file", content |-> c, ro |-> FALSE]

\* The text of a path: its components joined by "/"
RECURSIVE PathText(_)
PathText(p) ==
    IF Len(p) = 0 THEN <<>>
    ELSE IF Len(p) = 1 THEN <<p[1]>>
    ELSE <<p[1], "/">> \o PathText(Tail(p))

Parent(p) == SubSeq(p, 1, Len(p) - 1)

\* Some proper prefix of p names a regular file (ENOTDIR)
ThroughFile(f, p) == Len(p) = 2 /\ f[Parent(p)].kind = "file"

\* Some proper prefix of p does not exist (ENOENT)
ThroughNothing(f, p) == Len(p) = 2 /\ f[Parent(p)].kind = "none"

\* The files and directories of a well-formed tree: a node has a parent directory
WellFormed(f) ==
    \A p \in Paths : (Len(p) = 2 /\ f[p].kind # "none") => f[Parent(p)].kind = "dir"

E_noent == <<": no such file or directory">>

E_notdir == <<": not a directory">>

E_isdir == <<": is a directory">>

E_perm == <<": permission denied">>

OsErr(op, p, what) == [ok |-> FALSE, content |-> <<>>,
                       notExist |-> (what = E_noent),
                       msg |-> <<op>> \o PathText(p) \o what]

\* os.ReadFile(name)
OsReadFile(f, p) ==
    IF p = <<>> THEN OsErr("open ", p, E_noent)
    ELSE IF p = Dot THEN OsErr("read ", p, E_isdir)
    ELSE IF ThroughFile(f, p) THEN OsErr("open ", p, E_notdir)
    ELSE IF ThroughNothing(f, p) \/ f[p].kind = "none" THEN OsErr("open ", p, E_noent)
    ELSE IF f[p].kind = "dir" THEN OsErr("read ", p, E_isdir)
    ELSE [ok |-> TRUE, content |-> f[p].content, notExist |-> FALSE, msg |-> <<>>]

\* os.WriteFile(name, data, 0644)
OsWriteFile(f, p, data) ==
    IF p = <<>> THEN [ok |-> FALSE, fs |-> f, msg |-> <<"open ">> \o E_noent]
    ELSE IF p = Dot THEN [ok |-> FALSE, fs |-> f, msg |-> <<"open ", ".">> \o E_isdir]
    ELSE IF ThroughFile(f, p)
         THEN [ok |-> FALSE, fs |-> f, msg |-> <<"open ">> \o PathText(p) \o E_notdir]
    ELSE IF ThroughNothing(f, p)
         THEN [ok |-> FALSE, fs |-> f, msg |-> <<"open ">> \o PathText(p) \o E_noent]
    ELSE IF f[p].kind = "dir"
         THEN [ok |-> FALSE, fs |-> f, msg |-> <<"open ">> \o PathText(p) \o E_isdir]
    ELSE IF f[p].kind = "file" /\ f[p].ro
         THEN [ok |-> FALSE, fs |-> f, msg |-> <<"open ">> \o PathText(p) \o E_perm]
    ELSE [ok |-> TRUE, fs |-> [f EXCEPT ![p] = FileNode(data)], msg |-> <<>>]

\* os.MkdirAll(path, 0755), for a directory directly under the working directory
OsMkdirAll(f, d) ==
    IF f[d].kind = "dir" THEN [ok |-> TRUE, fs |-> f, msg |-> <<>>]
    ELSE IF f[d].kind = "file"
         THEN [ok |-> FALSE, fs |-> f, msg |-> <<"mkdir ">> \o PathText(d) \o E_notdir]
    ELSE [ok |-> TRUE, fs |-> [f EXCEPT ![d] = DirNode], msg |-> <<>>]

\* path.Dir(filePath)
PathDir(p) == IF Len(p) <= 1 THEN Dot ELSE Parent(p)

----------------------------------------------------------------------------
(* Tool inputs: the raw JSON payload after json.Unmarshal.  A payload is   *)
(* either malformed (Unmarshal fails) or an object whose absent fields are *)
(* the empty string.                                                       *)

Args(p, o, n) == [json |-> "object", path |-> p, old_str |-> o, new_str |-> n]

Malformed == [json |-> "malformed", path |-> <<>>, old_str |-> <<>>, new_str |-> <<>>]

E_json == <<"unexpected end of JSON input">>

\* What a tool's Function returns: (string, error), the file system it leaves,
\* and whether it panicked instead of returning
Ok(v, f) == [val |-> v, failed |-> FALSE, msg |-> <<>>, fs |-> f, panicked |-> FALSE]

Err(m, f) == [val |-> <<>>, failed |-> TRUE, msg |-> m, fs |-> f, panicked |-> FALSE]

Panic(m, f) == [val |-> <<>>, failed |-> TRUE, msg |-> m, fs |-> f, panicked |-> TRUE]

\* ReadFile
ReadFile(input, f) ==
    IF input.json = "malformed" THEN Err(E_json, f)
    ELSE LET r == OsReadFile(f, input.path)
         IN  IF ~r.ok THEN Err(r.msg, f) ELSE Ok(r.content, f)

\* json.Marshal(files) for files []string: a nil slice is marshalled as null
RECURSIVE JsonItems(_)
JsonItems(files) ==
    IF Len(files) = 0 THEN <<>>
    ELSE <<"\"">> \o Head(files) \o <<"\"">>
         \o (IF Len(files) = 1 THEN <<>> ELSE <<",">>)
         \o JsonItems(Tail(files))

JsonMarshal(files) ==
    IF files = <<>> THEN <<"null">> ELSE <<"[">> \o JsonItems(files) \o <<"]">>

\* filepath.Walk below directory root, from the i-th name on, in lexical order;
\* rel is the walked directory relative to root.  Each entry is filepath.Rel(dir, path),
\* with "/" appended for a directory.
RECURSIVE WalkFrom(_, _, _, _)
WalkFrom(f, root, rel, i) ==
    IF i > Len(Names) THEN <<>>
    ELSE LET p == root \o rel \o <<Names[i]>>
             r == rel \o <<Names[i]>>
         IN  IF Len(p) > 2 \/ f[p].kind = "none" THEN WalkFrom(f, root, rel, i + 1)
             ELSE IF f[p].kind = "dir"
                  THEN <<PathText(r) \o <<"/">>>> \o WalkFrom(f, root, r, 1)
                       \o WalkFrom(f, root, rel, i + 1)
             ELSE <<PathText(r)>> \o WalkFrom(f, root, rel, i + 1)

\* ListFiles
ListFiles(input, f) ==
    IF input.json = "malformed" THEN Panic(E_json, f)
    ELSE LET dir == IF input.path # <<>> THEN input.path ELSE Dot
             missing == dir # Dot /\ (ThroughNothing(f, dir) \/ ThroughFile(f, dir)
                                      \/ f[dir].kind = "none")
             files == IF dir = Dot THEN WalkFrom(f, <<>>, <<>>, 1)
                      ELSE IF f[dir].kind = "dir" THEN WalkFrom(f, dir, <<>>, 1)
                      ELSE <<>>
         IN  IF missing
             THEN Err(<<"lstat ">> \o PathText(dir)
                        \o (IF ThroughFile(f, dir) THEN E_notdir ELSE E_noent), f)
             ELSE Ok(JsonMarshal(files), f)

\* A faulty variant of createNewFile: the parent directory is not created
createNewFile_NoMkdir(filePath, content, f) ==
    LET wr == OsWriteFile(f, filePath, content)
    IN  IF ~wr.ok
        THEN Err(W_failed \o <<" to create file: ">> \o wr.msg, wr.fs)
        ELSE Ok(<<"Successfully created file ">> \o PathText(filePath), wr.fs)

\* createNewFile
createNewFile(filePath, content, f) ==
    LET dir == PathDir(filePath)
        md == IF dir # Dot THEN OsMkdirAll(f, dir) ELSE [ok |-> TRUE, fs |-> f, msg |-> <<>>]
        wr == OsWriteFile(md.fs, filePath, content)
    IN  IF ~md.ok
        THEN Err(W_failed \o <<" to create directory: ">> \o md.msg, md.fs)
        ELSE IF ~wr.ok
        THEN Err(W_failed \o <<" to create file: ">> \o wr.msg, wr.fs)
        ELSE Ok(<<"Successfully created file ">> \o PathText(filePath), wr.fs)

\* A faulty variant of EditFile: old_str and new_str are not compared
EditFile_NoIdentityCheck(input, f) ==
    IF input.json = "malformed"
    THEN Err(W_failed \o <<" to parse edit_file input: ">> \o E_json, f)
    ELSE IF input.path = <<>>
    THEN Err(<<"path ">> \o W_cannot \o <<" be empty">>, f)
    ELSE LET rd == OsReadFile(f, input.path)
             oldContent == rd.content
             newContent == Replace(oldContent, input.old_str, input.new_str)
             wr == OsWriteFile(f, input.path, newContent)
         IN  IF ~rd.ok
             THEN IF rd.notExist /\ input.old_str = <<>>
                  THEN createNewFile(input.path, input.new_str, f)
                  ELSE Err(W_failed \o <<" to read file ">> \o PathText(input.path)
                             \o <<": ">> \o rd.msg, f)
             ELSE IF oldContent = newContent /\ input.old_str # <<>>
             THEN Err(<<"old_str '">> \o input.old_str \o <<"' not found in file ">>
                        \o PathText(input.path), f)
             ELSE IF ~wr.ok
             THEN Err(W_failed \o <<" to write to file ">> \o PathText(input.path)
                        \o <<": ">> \o wr.msg, f)
             ELSE Ok(<<"File successfully edited">>, wr.fs)

\* EditFile
EditFile(input, f) ==
    IF input.json = "malformed"
    THEN Err(W_failed \o <<" to parse edit_file input: ">> \o E_json, f)
    ELSE IF input.path = <<>>
    THEN Err(<<"path ">> \o W_cannot \o <<" be empty">>, f)
    ELSE IF input.old_str = input.new_str
    THEN Err(<<"old_str and new_str ">> \o W_cannot \o <<" be identical">>, f)
    ELSE LET rd == OsReadFile(f, input.path)
             oldContent == rd.content
             newContent == Replace(oldContent, input.old_str, input.new_str)
             wr == OsWriteFile(f, input.path, newContent)
         IN  IF ~rd.ok
             THEN IF rd.notExist /\ input.old_str = <<>>
                  THEN createNewFile(input.path, input.new_str, f)
                  ELSE Err(W_failed \o <<" to read file ">> \o PathText(input.path)
                             \o <<": ">> \o rd.msg, f)
             ELSE IF oldContent = newContent /\ input.old_str # <<>>
             THEN Err(<<"old_str '">> \o input.old_str \o <<"' not found in file ">>
                        \o PathText(input.path), f)
             ELSE IF ~wr.ok
             THEN Err(W_failed \o <<" to write to file ">> \o PathText(input.path)
                        \o <<": ">> \o wr.msg, f)
             ELSE Ok(<<"File successfully edited">>, wr.fs)

----------------------------------------------------------------------------
(* The agent *)

\* The tool list main hands to NewAgent: each tool's Name and its Function
ToolsList == <<[Name |-> "read_file", Function |-> "ReadFile"],
               [Name |-> "list_files", Function |-> "ListFiles"],
               [Name |-> "edit_file", Function |-> "EditFile"]>>

\* toolDef.Function(input)
CallFunction(fn, input, f) ==
    CASE fn = "ReadFile" -> ReadFile(input, f)
      [] fn = "ListFiles" -> ListFiles(input, f)
      [] fn = "EditFile" -> EditFile(input, f)

\* A faulty variant of FindTool: names are compared as strings.EqualFold does
FoldName(name) == IF name = "Read_File" THEN "read_file" ELSE name

FindTool_Fold(list, name) ==
    IF \E i \in 1..Len(list) : list[i].Name = FoldName(name)
    THEN CHOOSE i \in 1..Len(list) : list[i].Name = FoldName(name)
    ELSE 0

\* NewAgent: the tools field of the agent built from toolsList
NewAgent(toolsList) == toolsList

\* The lookup loop of executeTool: the index of the first tool whose Name is name, or 0
FindTool(list, name) ==
    IF \E i \in 1..Len(list) : list[i].Name = name
    THEN CHOOSE i \in 1..Len(list) :
             /\ list[i].Name = name
             /\ \A j \in 1..(i - 1) : list[j].Name # name
    ELSE 0

NotFoundText == <<"tool not found">>

\* Agent.executeTool: the result text, the file system left, whether the process
\* panicked, which Function was invoked ("none" if none) and whether it returned an error
executeTool(list, name, input, f) ==
    LET i == FindTool(list, name)
        r == CallFunction(list[i].Function, input, f)
    IN  IF i = 0
        THEN [result |-> NotFoundText, fs |-> f, panicked |-> FALSE,
              invoked |-> "none", failed |-> FALSE]
        ELSE [result |-> IF r.failed THEN r.msg ELSE r.val, fs |-> r.fs,
              panicked |-> r.panicked, invoked |-> list[i].Function,
              failed |-> r.failed]

\* openai.ChatCompletionMessage
UserMessage(text) ==
    [Role |-> "user", Content |-> text, ToolCalls |-> <<>>, ToolCallID |-> 0]

AssistantMessage(text, calls) ==
    [Role |-> "assistant", Content |-> text, ToolCalls |-> calls, ToolCallID |-> 0]

\* A faulty variant of ToolMessage: the result is not tagged with the call's id
ToolMessage_NoID(id, result) ==
    [Role |-> "tool", Content |-> result, ToolCalls |-> <<>>, ToolCallID |-> 0]

ToolMessage(id, result) ==
    [Role |-> "tool", Content |-> result, ToolCalls |-> <<>>, ToolCallID |-> id]

\* openai.ToolCall
ToolCall(id, name, arguments) == [ID |-> id, Name |-> name, Arguments |-> arguments]

\* The retention limits of Run
HighWater == 20

KeepLast == 10

\* A faulty variant of Truncate: the trim already fires at the high-water mark itself
Truncate_AtHighWater(conv) ==
    IF Len(conv) >= HighWater
    THEN SubSeq(conv, Len(conv) - KeepLast + 1, Len(conv))
    ELSE conv

\* A faulty variant of Truncate: the conversation is never trimmed
Truncate_Never(conv) == conv

\* A faulty variant of Truncate: the oldest messages are kept instead of the newest
Truncate_KeepFirst(conv) ==
    IF Len(conv) > HighWater
    THEN SubSeq(conv, 1, KeepLast)
    ELSE conv

\* Run, lines 42-44: the trim applied when a user input has been read
Truncate(conv) ==
    IF Len(conv) > HighWater
    THEN SubSeq(conv, Len(conv) - KeepLast + 1, Len(conv))
    ELSE conv

\* A faulty variant of OnUserInput: the trim is evaluated after the append
OnUserInput_TrimAfter(conv, userInput) == Truncate(Append(conv, UserMessage(userInput)))

\* Run, lines 42-50: the conversation after a user input has been read
OnUserInput(conv, userInput) == Append(Truncate(conv), UserMessage(userInput))

\* Run, line 77: whether a tool result marks the batch as failed
IsFailure(result) == Contains(result, W_error) \/ Contains(result, W_failed)

\* A faulty variant of RemainingAfter: the range loop is left at the first failed result
RemainingAfter_BreakOnFailure(calls, ok) == IF ok THEN Tail(calls) ELSE <<>>

\* Run, lines 67-80: the calls the range loop still has to process after one
\* whose result left the batch flag at ok
RemainingAfter(calls, ok) == Tail(calls)

\* A faulty variant of AfterAnswer: the break of line 61 is missing
AfterAnswer_NoBreak == "infer"

\* Run, lines 58-62: where the inner loop goes after an answer without tool calls
AfterAnswer == "read"

\* The rounds of the inner loop of Run in the current turn: the assistant messages
\* with tool calls that stand behind the last user message
RoundsThisTurn(conv) ==
    LET users == {i \in 1..Len(conv) : conv[i].Role = "user"}
        lastUser == IF users = {} THEN 0
                    ELSE CHOOSE i \in users : \A j \in users : j <= i
    IN  Cardinality({i \in (lastUser + 1)..Len(conv) :
                        conv[i].Role = "assistant" /\ conv[i].ToolCalls # <<>>})

\* A faulty variant of AfterBatch: the turn is ended after two rounds of tool calls
AfterBatch_Capped(ok) ==
    IF ok /\ RoundsThisTurn(conversation) < 2 THEN "infer" ELSE "read"

\* A faulty variant of AfterBatch: the batch flag is not consulted
AfterBatch_AlwaysInfer(ok) == "infer"

\* Run, lines 82-84: where the inner loop goes once a batch is processed
AfterBatch(ok) == IF ok THEN "infer" ELSE "read"

\* A faulty variant of OnEndOfInput: the end of input is returned as an error
OnEndOfInput_AsError == [pc |-> "returned", returned |-> "error"]

\* Run, lines 37-40 and 87: what Run does when getUserMessage reports no input
OnEndOfInput == [pc |-> "returned", returned |-> "nil"]

\* A faulty variant of OnInferenceError: the failed call is retried
OnInferenceError_Retry == [pc |-> "infer", returned |-> "none"]

\* Run, lines 53-56: what Run does when runInference returns an error
OnInferenceError == [pc |-> "returned", returned |-> "error"]

----------------------------------------------------------------------------
(* The environment: standard input, the inference backend, the files *)

\* The k-th line of standard input
UserLine(k) == <<"line ", ToString(k)>>

\* The text of the answer to the k-th inference call
AnswerText(k) == <<"answer ", ToString(k)>>

\* The tool calls the backend asks for
Requests ==
    { [Name |-> "read_file", Arguments |-> Args(<<"a.txt">>, <<>>, <<>>)],
      [Name |-> "read_file", Arguments |-> Args(<<"n.txt">>, <<>>, <<>>)],
      [Name |-> "edit_file", Arguments |-> Malformed],
      [Name |-> "edit_file", Arguments |-> Args(<<>>, <<"h">>, <<"j">>)],
      [Name |-> "edit_file", Arguments |-> Args(<<"a.txt">>, <<"h", "i">>, W_error)],
      [Name |-> "Read_File", Arguments |-> Args(<<"a.txt">>, <<>>, <<>>)],
      [Name |-> "list_files", Arguments |-> Malformed] }

\* The batches of k calls the backend may return, with fresh ids first+1..first+k
RECURSIVE Batches(_, _)
Batches(first, k) ==
    IF k = 0 THEN {<<>>}
    ELSE {<<ToolCall(first + 1, q.Name, q.Arguments)>> \o rest :
             q \in Requests, rest \in Batches(first + 1, k - 1)}

InitFs == [p \in Paths |-> IF p = <<"a.txt">> THEN FileNode(<<"h", "i">>) ELSE NoNode]

NoMessage == [Role |-> "none", Content |-> <<>>, ToolCalls |-> <<>>, ToolCallID |-> 0]

NoCall == ToolCall(0, "", Malformed)

\* What has been observed of the current user turn
NoHist ==
    [trimmed |-> FALSE,           \* the trim dropped messages when the turn began
     resp |-> NoMessage,          \* the last message runInference returned
     inferErr |-> FALSE,          \* runInference returned an error
     malformed |-> FALSE,         \* the completion held no choice
     eof |-> FALSE,               \* getUserMessage reported the end of input
     executed |-> 0,              \* tool calls executed
     lastCall |-> NoCall,         \* the last tool call executed
     lastInvoked |-> "none",      \* the Function it invoked
     lastResult |-> <<>>,         \* the text executeTool returned for it
     lastFailed |-> FALSE,        \* whether line 77 classified that text as failed
     classifiedFailed |-> FALSE,  \* some result was classified as failed
     executorFailed |-> FALSE,    \* some Function returned an error
     panicAt |-> "none"]          \* where the process panicked

----------------------------------------------------------------------------
(* Agent.Run *)

Init ==
    /\ tools = NewAgent(ToolsList)
    /\ conversation = <<>>
    /\ pc = "read"
    /\ pending = <<>>
    /\ allToolsSuccessful = TRUE
    /\ returned = "none"
    /\ display = <<>>
    /\ fs = InitFs
    /\ nRead = 0
    /\ nInfer = 0
    /\ nCalls = 0
    /\ hist = NoHist

\* Lines 37-50: a line of input is read, the conversation trimmed, the user message appended
GetUserMessage ==
    /\ pc = "read"
    /\ nRead < MaxInputs
    /\ conversation' = OnUserInput(conversation, UserLine(nRead + 1))
    /\ nRead' = nRead + 1
    /\ pc' = "infer"
    /\ hist' = [NoHist EXCEPT !.trimmed = (Len(conversation') <= Len(conversation))]
    /\ UNCHANGED <<tools, pending, allToolsSuccessful, returned, display, fs, nInfer, nCalls>>

\* Lines 37-40 and 87: the input is exhausted, Run returns nil
EndOfInput ==
    /\ pc = "read"
    /\ pc' = OnEndOfInput.pc
    /\ returned' = OnEndOfInput.returned
    /\ hist' = [hist EXCEPT !.eof = TRUE]
    /\ UNCHANGED <<tools, conversation, pending, allToolsSuccessful, display, fs,
                   nRead, nInfer, nCalls>>

\* Lines 53-56 (runInference, 126-134): the completion call fails
InferenceFails ==
    /\ pc = "infer"
    /\ nInfer' = nInfer + 1
    /\ pc' = OnInferenceError.pc
    /\ returned' = OnInferenceError.returned
    /\ hist' = [hist EXCEPT !.inferErr = TRUE]
    /\ UNCHANGED <<tools, conversation, pending, allToolsSuccessful, display, fs, nRead, nCalls>>

\* runInference, line 136: the completion holds no choice, resp.Choices[0] panics
InferenceMalformed ==
    /\ pc = "infer"
    /\ nInfer' = nInfer + 1
    /\ pc' = "panicked"
    /\ hist' = [hist EXCEPT !.panicAt = "runInference", !.malformed = TRUE]
    /\ UNCHANGED <<tools, conversation, pending, allToolsSuccessful, returned, display, fs,
                   nRead, nCalls>>

\* Lines 58-62: the assistant message carries no tool call
InferenceAnswers ==
    /\ pc = "infer"
    /\ LET resp == AssistantMessage(AnswerText(nInfer + 1), <<>>)
       IN  /\ display' = resp.Content
           /\ conversation' = Append(conversation, resp)
           /\ hist' = [hist EXCEPT !.resp = resp]
    /\ nInfer' = nInfer + 1
    /\ pc' = AfterAnswer
    /\ UNCHANGED <<tools, pending, allToolsSuccessful, returned, fs, nRead, nCalls>>

\* Lines 64-66: the assistant message carries tool calls
InferenceCallsTools ==
    /\ pc = "infer"
    /\ \E k \in 1..MaxBatch :
         /\ nCalls + k <= MaxToolCalls
         /\ \E calls \in Batches(nCalls, k) :
              LET resp == AssistantMessage(<<>>, calls)
              IN  /\ conversation' = Append(conversation, resp)
                  /\ pending' = calls
                  /\ nCalls' = nCalls + k
                  /\ hist' = [hist EXCEPT !.resp = resp]
    /\ allToolsSuccessful' = TRUE
    /\ nInfer' = nInfer + 1
    /\ pc' = "tools"
    /\ UNCHANGED <<tools, returned, display, fs, nRead>>

\* Lines 67-84: one iteration of the range loop, and the test after the last one
ExecuteToolCall ==
    /\ pc = "tools"
    /\ LET toolCall == Head(pending)
           r == executeTool(tools, toolCall.Name, toolCall.Arguments, fs)
           failedNow == IsFailure(r.result)
           ok == allToolsSuccessful /\ ~failedNow
           rest == RemainingAfter(pending, ok)
           seen == [hist EXCEPT !.executed = @ + 1,
                                !.lastCall = toolCall,
                                !.lastInvoked = r.invoked,
                                !.lastResult = r.result,
                                !.executorFailed = @ \/ r.failed]
       IN  IF r.panicked
           THEN /\ pc' = "panicked"
                /\ fs' = r.fs
                /\ hist' = [seen EXCEPT !.panicAt = r.invoked]
                /\ UNCHANGED <<tools, conversation, pending, allToolsSuccessful>>
           ELSE /\ conversation' = Append(conversation, ToolMessage(toolCall.ID, r.result))
                /\ fs' = r.fs
                /\ allToolsSuccessful' = ok
                /\ pending' = rest
                /\ pc' = IF rest = <<>> THEN AfterBatch(ok) ELSE "tools"
                /\ hist' = [seen EXCEPT !.lastFailed = failedNow,
                                        !.classifiedFailed = @ \/ failedNow]
    /\ UNCHANGED <<tools, returned, display, nRead, nInfer, nCalls>>

Next ==
    \/ GetUserMessage
    \/ EndOfInput
    \/ InferenceFails
    \/ InferenceMalformed
    \/ InferenceAnswers
    \/ InferenceCallsTools
    \/ ExecuteToolCall

Spec == Init /\ [][Next]_vars

\* A tool list in which two tools carry the name read_file
ToolsWithDuplicate ==
    ToolsList \o <<[Name |-> "read_file", Function |-> "EditFile"]>>

\* The tool lists a caller may hand to NewAgent
CandidateToolLists == {ToolsList, ToolsWithDuplicate}

\* The agent built from any of the candidate lists, before Run's first read
InitAnyTools ==
    /\ tools \in {NewAgent(l) : l \in CandidateToolLists}
    /\ conversation = <<>>
    /\ pc = "read"
    /\ pending = <<>>
    /\ allToolsSuccessful = TRUE
    /\ returned = "none"
    /\ display = <<>>
    /\ fs = InitFs
    /\ nRead = 0
    /\ nInfer = 0
    /\ nCalls = 0
    /\ hist = NoHist

SpecAnyTools == InitAnyTools /\ [][Next]_vars

-----------------------------------------------------------------------------
(* The tools called one after another on a working directory, outside a chat *)

MaxDirectCalls == 2

\* The working directories the calls start from
EmptyFs == [p \in Paths |-> NoNode]

DirFs == [p \in Paths |-> IF p = <<"d">> THEN DirNode
                           ELSE IF p = <<"a.txt">> THEN FileNode(<<"h", "i">>)
                           ELSE NoNode]

InitFsSet == {EmptyFs, InitFs, DirFs}

\* The inputs handed to edit_file
EditPaths == {<<>>, <<"a.txt">>, <<"n.txt">>, <<"d">>, <<"d", "n.txt">>, <<"a.txt", "n.txt">>}

EditStrings == {<<>>, <<"h">>, <<"{", "}">>}

EditInputs ==
    {Args(p, o, n) : p \in EditPaths, o \in {<<>>, <<"h">>}, n \in EditStrings}
        \cup {Malformed}

\* The inputs handed to read_file and list_files
PathInputs == {Args(p, <<>>, <<>>) : p \in {<<>>, <<"a.txt">>, <<"d">>, <<"n.txt">>}}
                  \cup {Malformed}

InitTools ==
    /\ tools = NewAgent(ToolsList)
    /\ fs \in InitFsSet
    /\ pc = "direct"
    /\ conversation = <<>>
    /\ pending = <<>>
    /\ allToolsSuccessful = TRUE
    /\ returned = "none"
    /\ display = <<>>
    /\ nRead = 0
    /\ nInfer = 0
    /\ nCalls = 0
    /\ hist = NoHist

\* One call of executeTool: the files it leaves, and what it returned
DirectCall(name, inputs) ==
    /\ pc = "direct"
    /\ nCalls < MaxDirectCalls
    /\ \E input \in inputs :
         LET r == executeTool(tools, name, input, fs)
         IN  /\ fs' = r.fs
             /\ pc' = IF r.panicked THEN "panicked" ELSE "direct"
             /\ hist' = [NoHist EXCEPT !.executed = hist.executed + 1,
                                       !.lastCall = ToolCall(nCalls + 1, name, input),
                                       !.lastInvoked = r.invoked,
                                       !.lastResult = r.result,
                                       !.lastFailed = IsFailure(r.result),
                                       !.executorFailed = r.failed,
                                       !.panicAt = IF r.panicked THEN r.invoked ELSE "none"]
    /\ nCalls' = nCalls + 1
    /\ UNCHANGED <<tools, conversation, pending, allToolsSuccessful, returned, display,
                   nRead, nInfer>>

CallEditFile == DirectCall("edit_file", EditInputs)

CallReadFile == DirectCall("read_file", PathInputs)

CallListFiles == DirectCall("list_files", PathInputs)

NextTools ==
    \/ CallEditFile
    \/ CallReadFile
    \/ CallListFiles

ToolSpec == InitTools /\ [][NextTools]_vars

----------------------------------------------------------------------------
(* Properties *)

Last(seq) == seq[Len(seq)]

Range(seq) == {seq[i] : i \in 1..Len(seq)}

\* The positions of the tool-result messages that carry id
ResultsOf(conv, id) ==
    {k \in 1..Len(conv) : conv[k].Role = "tool" /\ conv[k].ToolCallID = id}

\* C1 (turn pairing): whenever Run is about to call runInference, every tool call of
\* every assistant message in the conversation has exactly one tool-result message with
\* its id in the conversation, placed after that assistant message.  The backend's
\* tool-call ids are distinct.
C1_TurnPairing ==
    pc = "infer" =>
        \A i \in 1..Len(conversation) :
            \A j \in 1..Len(conversation[i].ToolCalls) :
                LET rs == ResultsOf(conversation, conversation[i].ToolCalls[j].ID)
                IN  /\ Cardinality(rs) = 1
                    /\ \A k \in rs : k > i

\* An inference call is due after a batch of two calls whose first result was
\* classified as failed, in a later user turn
C1_Witness ==
    /\ pc = "infer"
    /\ \E i \in 1..Len(conversation) :
          /\ Len(conversation[i].ToolCalls) = 2
          /\ IsFailure(conversation[i + 1].Content)

\* C2 (failure short-circuit): once a tool result of the current user turn has been
\* classified as failed, Run is never about to call runInference in that turn and no
\* inference call has been made since the batch of the failed result was returned; when
\* the batch is done Run is back at reading user input (or has returned on end of
\* input), with the failed tool-result message in the conversation.  (A later call of
\* the batch that panics ends the process before the batch is done.)
C2_FailureShortCircuit ==
    hist.classifiedFailed =>
        /\ pc \in {"tools", "read", "returned", "panicked"}
        /\ pc # "panicked" => ((pc = "tools") = (pending # <<>>))
        /\ returned # "error"
        /\ \E k \in 1..Len(conversation) :
              /\ conversation[k].Role = "tool"
              /\ conversation[k].ToolCallID \in
                    {hist.resp.ToolCalls[j].ID : j \in 1..Len(hist.resp.ToolCalls)}
              /\ (Contains(conversation[k].Content, W_error)
                  \/ Contains(conversation[k].Content, W_failed))

\* Run awaits user input after a batch whose first of two results was classified as failed
C2_Witness ==
    /\ hist.classifiedFailed
    /\ pc = "read"
    /\ hist.executed = 2
    /\ IsFailure(conversation[Len(conversation) - 1].Content)

\* C3 (termination on clean answer): once runInference has returned an assistant message
\* without tool calls in the current user turn, that message is the last message of the
\* conversation, its text is what was displayed last, and Run is reading user input (or
\* has returned nil on end of input): no inference call and no tool execution follows.
C3_CleanAnswerEndsTurn ==
    (hist.resp.Role = "assistant" /\ hist.resp.ToolCalls = <<>>) =>
        /\ Len(conversation) > 0
        /\ Last(conversation) = hist.resp
        /\ display = hist.resp.Content
        /\ pc \in {"read", "returned"}
        /\ returned \in {"none", "nil"}
        /\ pending = <<>>

\* A clean answer closes a user turn in which a tool round took place
C3_Witness ==
    /\ hist.resp.Role = "assistant"
    /\ hist.resp.ToolCalls = <<>>
    /\ hist.executed > 0
    /\ pc = "read"

\* C4 (retention bound): a step that reads a user input with more than 20 messages held
\* leaves exactly the 10 most recent prior messages, in their order, followed by the new
\* user message; with 20 or fewer held it keeps every message and appends the new one.
C4_RetentionBound ==
    [][ nRead' = nRead + 1 =>
          LET n == Len(conversation)
              u == UserMessage(UserLine(nRead'))
          IN  IF n > 20
              THEN /\ Len(conversation') = 11
                   /\ \A i \in 1..10 : conversation'[i] = conversation[n - 10 + i]
                   /\ conversation'[11] = u
              ELSE /\ Len(conversation') = n + 1
                   /\ \A i \in 1..n : conversation'[i] = conversation[i]
                   /\ conversation'[n + 1] = u ]_vars

\* The trim has fired: the turn starts with 10 retained messages and the user message
C4_Witness ==
    /\ hist.trimmed
    /\ pc = "infer"
    /\ Len(conversation) = 11
    /\ Last(conversation).Role = "user"

\* C5 (truncation never splits a call/result pair): every tool-result message in the
\* conversation is preceded by the assistant message holding the tool call with its id.
C5_NoOrphanResult ==
    \A k \in 1..Len(conversation) :
        conversation[k].Role = "tool" =>
            \E i \in 1..(k - 1) :
                /\ conversation[i].Role = "assistant"
                /\ \E j \in 1..Len(conversation[i].ToolCalls) :
                      conversation[i].ToolCalls[j].ID = conversation[k].ToolCallID

\* C6 (tool execution errors stop the turn): once a tool's Function has returned an error
\* in the current user turn, a result has been classified as failed and Run is not about
\* to call runInference.
C6_ExecutorErrorStopsTurn ==
    (hist.executorFailed /\ pc # "panicked") =>
        /\ hist.classifiedFailed
        /\ pc # "infer"

\* C7 (failure classification): the last executed call's result was classified as failed
\* exactly when its text contains "error", "failed" or "cannot".
C7_ClassifiedByThreeWords ==
    (hist.executed > 0 /\ hist.panicAt \in {"none", "runInference"}) =>
        (hist.lastFailed <=> (\/ Contains(hist.lastResult, W_error)
                              \/ Contains(hist.lastResult, W_failed)
                              \/ Contains(hist.lastResult, W_cannot)))

\* C8 (unknown tool): when the last executed call named no registered tool (compared
\* exactly, case-sensitively), executeTool returned the text "tool not found", invoked no
\* Function, no tool made the process panic, and that text is in the conversation as the
\* tool-result message of the call.
C8_UnknownTool ==
    (hist.executed > 0 /\ hist.lastCall.Name \notin {"read_file", "list_files", "edit_file"}) =>
        /\ hist.lastResult = <<"tool not found">>
        /\ hist.lastInvoked = "none"
        /\ hist.panicAt \in {"none", "runInference"}
        /\ ToolMessage(hist.lastCall.ID, <<"tool not found">>) \in Range(conversation)

\* The backend asked for Read_File, which differs from read_file in case only
C8_Witness ==
    /\ hist.executed > 0
    /\ hist.lastCall.Name = "Read_File"
    /\ Last(conversation).Role = "tool"

\* C9 (tool failures never cross the loop boundary): after any executed tool call the
\* process has not panicked in a tool, and the text executeTool returned is in the
\* conversation as the tool-result message of the call.
C9_ToolFailuresAbsorbed ==
    hist.executed > 0 =>
        /\ hist.panicAt \in {"none", "runInference"}
        /\ ToolMessage(hist.lastCall.ID, hist.lastResult) \in Range(conversation)

\* C10 (transport failure): a step in which runInference returns an error leaves Run
\* returned with that error, and no step follows it that appends a message, calls
\* runInference, executes a tool or reads user input.
C10_TransportFatal ==
    [][ /\ hist'.inferErr => (returned' = "error" /\ pc' = "returned")
        /\ hist.inferErr =>
              /\ conversation' = conversation
              /\ nInfer' = nInfer
              /\ nRead' = nRead
              /\ fs' = fs
              /\ hist'.executed = hist.executed ]_vars

\* The inference call that follows a tool round fails
C10_Witness ==
    /\ hist.inferErr
    /\ returned = "error"
    /\ hist.executed > 0

\* C11: a completion that holds no choice is handled like a transport error:
\* runInference returns an error and Run returns it, the process does not crash
C11_MalformedIsAnError ==
    hist.malformed => (pc = "returned" /\ returned = "error")

\* The number of calls of the assistant message at position i that have been executed
DoneAt(i) ==
    IF conversation[i] = hist.resp
    THEN Len(conversation[i].ToolCalls) - Len(pending)
    ELSE Len(conversation[i].ToolCalls)

\* C12: an assistant message with k >= 1 tool calls (its text may be empty) is
\* appended before any of its calls runs and is followed at once by the tool-result
\* messages of its calls, one per call, in the order of the calls and tagged with
\* their ids: exactly k of them once the batch is done, and while the batch runs
\* one per executed call, the calls still to run being the rest of the list in order.
\* (If a tool crashes the process the transcript stops at the calls executed so far.)
C12_TranscriptShape ==
    \A i \in 1..Len(conversation) :
        LET m == conversation[i]
            k == Len(m.ToolCalls)
            done == DoneAt(i)
        IN  (m.Role = "assistant" /\ k >= 1) =>
                /\ done \in 0..k
                /\ i + done <= Len(conversation)
                /\ \A j \in 1..done :
                       /\ conversation[i + j].Role = "tool"
                       /\ conversation[i + j].ToolCallID = m.ToolCalls[j].ID
                /\ (i + done < Len(conversation)) => conversation[i + done + 1].Role # "tool"
                /\ (m = hist.resp) =>
                       /\ pending = SubSeq(m.ToolCalls, done + 1, k)
                       /\ (done >= 1 /\ pc # "panicked") => hist.lastCall = m.ToolCalls[done]
                /\ (m # hist.resp \/ pc \in {"infer", "read", "returned"}) => done = k

\* A batch of two calls under an assistant message with empty text has been run
\* to its end and both results stand behind it
C12_Witness ==
    /\ pc = "infer"
    /\ Len(conversation) >= 3
    /\ LET m == conversation[Len(conversation) - 2]
       IN  /\ m.Role = "assistant"
           /\ m.Content = <<>>
           /\ Len(m.ToolCalls) = 2
           /\ Last(conversation).Role = "tool"
           /\ Last(conversation).ToolCallID = m.ToolCalls[2].ID

HasDuplicateNames(list) ==
    \E i, j \in 1..Len(list) : i # j /\ list[i].Name = list[j].Name

\* C13: a tool list with two tools of the same name is rejected at startup, as a
\* fatal configuration error, before the conversation loop begins: no line is
\* read and no inference is made with such a list
C13_DuplicateNamesRejected ==
    HasDuplicateNames(tools) => (nRead = 0 /\ nInfer = 0)

\* C14: the conversation is append-only except for the retention trim. Every step
\* leaves it unchanged, or appends exactly one message behind the messages held, or,
\* only in the step that reads a user input while more than 20 messages are held,
\* replaces it by its last 10 messages (followed by the user message just read).
C14_AppendOnly ==
    [][ LET n == Len(conversation)
        IN  \/ conversation' = conversation
            \/ /\ Len(conversation') = n + 1
               /\ SubSeq(conversation', 1, n) = conversation
            \/ /\ nRead' = nRead + 1
               /\ n > 20
               /\ SubSeq(conversation', 1, Len(conversation') - 1)
                      = SubSeq(conversation, n - 9, n)
               /\ Last(conversation').Role = "user" ]_vars

\* The trim has replaced the conversation by a suffix and a message has been
\* appended behind the user message of the turn
C14_Witness ==
    /\ hist.trimmed
    /\ Len(conversation) = 12
    /\ conversation[11].Role = "user"
    /\ conversation[12].Role = "assistant"

\* C15: the retention trim is evaluated once per user turn, on the conversation as
\* it stands when the input has been read and before the user message is appended:
\* the read leaves 11 messages if more than 20 were held and one more than were held
\* otherwise, the user message last; no other step of the turn (inference, tool
\* execution, return) ever shortens the conversation, however long it has grown.
C15_TrimOncePerTurn ==
    [][ LET n == Len(conversation)
        IN  IF nRead' = nRead + 1
            THEN /\ Len(conversation') = (IF n > 20 THEN 11 ELSE n + 1)
                 /\ Last(conversation') = UserMessage(UserLine(nRead'))
            ELSE /\ Len(conversation') >= n
                 /\ SubSeq(conversation', 1, n) = conversation ]_vars

\* In the middle of a turn, after tool calls, more than 21 messages are held and
\* the trim has not been applied to them
C15_Witness ==
    /\ pc = "infer"
    /\ hist.executed > 0
    /\ ~hist.trimmed
    /\ Len(conversation) > 21

\* C16: when getUserMessage reports the end of input, Run returns nil at once: the
\* step makes no inference call, executes no tool, appends nothing to the
\* conversation and leaves the files alone, and nothing happens after it.
C16_EndOfInput ==
    [][ /\ (hist'.eof /\ ~hist.eof) =>
              /\ pc = "read"
              /\ pc' = "returned"
              /\ returned' = "nil"
              /\ conversation' = conversation
              /\ nInfer' = nInfer
              /\ nCalls' = nCalls
              /\ hist'.executed = hist.executed
              /\ fs' = fs
              /\ display' = display
        /\ hist.eof => UNCHANGED vars ]_vars

\* After at least one full turn the input has ended and Run has returned nil
C16_Witness ==
    /\ hist.eof
    /\ pc = "returned"
    /\ returned = "nil"
    /\ nRead > 0
    /\ Len(conversation) > 1

\* The call recorded in h was an edit_file call that reported a creation
ReportedCreation(h) ==
    /\ h.lastInvoked = "EditFile"
    /\ ~h.executorFailed
    /\ h.lastResult = <<"Successfully created file ">> \o PathText(h.lastCall.Arguments.path)

\* C17: after edit_file with an empty old_str and a non-empty new_str has created a
\* file, a second identical call returns an error and leaves every file unchanged
C17_RepeatedCreationFails ==
    [][ ( /\ nCalls' = nCalls + 1
          /\ ReportedCreation(hist)
          /\ hist.lastCall.Arguments.old_str = <<>>
          /\ hist.lastCall.Arguments.new_str # <<>>
          /\ hist'.lastCall.Name = hist.lastCall.Name
          /\ hist'.lastCall.Arguments = hist.lastCall.Arguments )
        => (hist'.executorFailed /\ fs' = fs) ]_vars

\* The step is a call of edit_file with a well-formed input
EditFileStep ==
    /\ nCalls' = nCalls + 1
    /\ hist'.lastCall.Name = "edit_file"
    /\ hist'.lastCall.Arguments.json = "object"

\* The step is a creation request: a non-empty path at which nothing exists, an
\* empty old_str and a non-empty new_str
CreationRequest ==
    /\ EditFileStep
    /\ hist'.lastCall.Arguments.path \in Paths
    /\ fs[hist'.lastCall.Arguments.path].kind = "none"
    /\ hist'.lastCall.Arguments.old_str = <<>>
    /\ hist'.lastCall.Arguments.new_str # <<>>

\* The step created the file with content exactly new_str, changed no other file
\* (at most creating the parent directory) and returned the creation confirmation
CreatedAsAsked ==
    LET a == hist'.lastCall.Arguments
    IN  /\ fs'[a.path] = FileNode(a.new_str)
        /\ \A q \in Paths \ {a.path} :
               fs'[q] = fs[q] \/ (q = Parent(a.path) /\ fs'[q] = DirNode)
        /\ ReportedCreation(hist')
        /\ hist'.lastResult # <<"File successfully edited">>

C19_IdenticalRejected ==
    [][ ( /\ EditFileStep
          /\ hist'.lastCall.Arguments.path # <<>>
          /\ hist'.lastCall.Arguments.old_str = hist'.lastCall.Arguments.new_str )
        => /\ hist'.executorFailed
           /\ hist'.lastResult = <<"old_str and new_str ">> \o W_cannot \o <<" be identical">>
           /\ fs' = fs ]_vars

\* The identical-strings error has been returned for a file that does not exist
C19_Witness ==
    /\ hist.lastInvoked = "EditFile"
    /\ hist.executorFailed
    /\ hist.lastResult = <<"old_str and new_str ">> \o W_cannot \o <<" be identical">>
    /\ hist.lastCall.Arguments.path = <<"n.txt">>
    /\ hist.lastCall.Arguments.old_str = <<"h">>
    /\ hist.lastCall.Arguments.new_str = <<"h">>
    /\ fs[<<"n.txt">>].kind = "none"

\* C20: as the description of edit_file states, whenever the file named by path
\* does not exist (and its parent is not a regular file), a call of edit_file
\* with old_str different from new_str creates that file
C20_MissingFileCreated ==
    [][ ( /\ EditFileStep
          /\ hist'.lastCall.Arguments.path \in Paths
          /\ fs[hist'.lastCall.Arguments.path].kind = "none"
          /\ ~ThroughFile(fs, hist'.lastCall.Arguments.path)
          /\ hist'.lastCall.Arguments.old_str # hist'.lastCall.Arguments.new_str )
        => fs'[hist'.lastCall.Arguments.path].kind = "file" ]_vars

\* The step is a call of list_files with a well-formed input naming a directory
\* (the empty path stands for the working directory)
ListDirectoryStep ==
    /\ nCalls' = nCalls + 1
    /\ hist'.lastCall.Name = "list_files"
    /\ hist'.lastCall.Arguments.json = "object"
    /\ \/ hist'.lastCall.Arguments.path = <<>>
       \/ /\ hist'.lastCall.Arguments.path \in Paths
          /\ fs[hist'.lastCall.Arguments.path].kind = "dir"

\* The entries below directory dir (<<>> for the working directory), each relative
\* to dir, a directory with "/" appended
EntriesBelow(f, dir) ==
    {PathText(SubSeq(q, Len(dir) + 1, Len(q)))
         \o (IF f[q].kind = "dir" THEN <<"/">> ELSE <<>>) :
     q \in {x \in Paths : /\ Len(x) > Len(dir)
                          /\ SubSeq(x, 1, Len(dir)) = dir
                          /\ f[x].kind # "none"}}

\* C21: on success, for every directory, one without entries included, and with
\* an empty path standing for ".", list_files returns a JSON array holding
\* exactly the entries below the queried path, the path itself excluded, each
\* relative to it and a directory with "/" appended
C21_ListFilesShape ==
    [][ ListDirectoryStep =>
          LET dir == hist'.lastCall.Arguments.path
              listing == WalkFrom(fs, dir, <<>>, 1)
          IN  /\ ~hist'.executorFailed
              /\ hist'.lastResult = <<"[">> \o JsonItems(listing) \o <<"]">>
              /\ Range(listing) = EntriesBelow(fs, dir)
              /\ Len(listing) = Cardinality(EntriesBelow(fs, dir))
              /\ fs' = fs ]_vars

\* C22: within a user turn the inner loop of Run is left only when inference
\* returns no tool call, when a result of the batch just processed was classified
\* as failed, or when inference returns an error; a batch whose results are all
\* classified successful leads back to inference, however many rounds the turn
\* has already taken.  (A crash of the process also ends the loop.)
C22_NoIterationCap ==
    [][ /\ (pc \in {"infer", "tools"} /\ pc' \notin {"infer", "tools", "panicked"}) =>
              \/ /\ pc = "infer"
                 /\ pc' = "read"
                 /\ nInfer' = nInfer + 1
                 /\ hist'.resp.Role = "assistant"
                 /\ hist'.resp.ToolCalls = <<>>
              \/ /\ pc = "tools"
                 /\ pc' = "read"
                 /\ pending' = <<>>
                 /\ hist'.classifiedFailed
                 /\ ~allToolsSuccessful'
              \/ /\ pc = "infer"
                 /\ pc' = "returned"
                 /\ returned' = "error"
                 /\ hist'.inferErr
        /\ (pc = "tools" /\ pc' # "panicked" /\ pending' = <<>> /\ ~hist'.classifiedFailed)
              => pc' = "infer" ]_vars

\* A second round of tool calls of one turn has ended with every result
\* classified successful, and inference is due again
C22_Witness ==
    /\ pc = "infer"
    /\ RoundsThisTurn(conversation) = 2
    /\ Last(conversation).Role = "tool"
    /\ ~hist.classifiedFailed
    /\ allToolsSuccessful

\* C23: a call classified as failed does not cut its batch short. Every step of
\* the range loop that returns executes the first pending call, appends its result
\* and leaves the remaining calls pending, failed or not; the loop is left, and the
\* success/failure decision taken, only when no call is pending any more.
C23_FailureDoesNotCutBatch ==
    [][ (pc = "tools" /\ pc' # "panicked") =>
          /\ pending # <<>>
          /\ pending' = Tail(pending)
          /\ conversation' = Append(conversation,
                                    ToolMessage(Head(pending).ID, hist'.lastResult))
          /\ hist'.lastCall = Head(pending)
          /\ hist'.executed = hist.executed + 1
          /\ (pc' = "tools") = (pending' # <<>>)
          /\ (pending' = <<>>) => pc' = (IF hist'.classifiedFailed THEN "read" ELSE "infer") ]_vars

\* The first call of a batch of two failed, the second was executed all the same
\* and succeeded, and only then was the turn ended
C23_Witness ==
    /\ pc = "read"
    /\ Len(conversation) >= 3
    /\ LET n == Len(conversation)
       IN  /\ Len(conversation[n - 2].ToolCalls) = 2
           /\ conversation[n - 1].Role = "tool"
           /\ IsFailure(conversation[n - 1].Content)
           /\ conversation[n].Role = "tool"
           /\ ~IsFailure(conversation[n].Content)
           /\ conversation[n].ToolCallID = conversation[n - 2].ToolCalls[2].ID

\* A user message has just been appended and inference has not yet been called
\* for it
JustAfterUserAppend ==
    /\ pc = "infer"
    /\ nRead > 0
    /\ hist.resp = NoMessage
    /\ Last(conversation).Role = "user"

\* C24: immediately after a user message is appended the conversation holds at
\* most 21 messages, and exactly 11 when the trim fired, however long earlier
\* turns had grown it
C24_SizeAtTurnStart ==
    JustAfterUserAppend =>
        /\ Len(conversation) <= 21
        /\ hist.trimmed => Len(conversation) = 11
        /\ Len(conversation) > 11 => ~hist.trimmed

\* A turn starts with the largest untrimmed conversation: 20 messages were held
\* when the input was read, 21 with the user message
C24_Witness ==
    /\ JustAfterUserAppend
    /\ ~hist.trimmed
    /\ Len(conversation) = 21

\* C25: the retention trim may drop an assistant message and keep its results, but
\* never the other way round: in every state, each assistant message with tool
\* calls that the conversation holds, other than the one whose batch is still
\* being executed, has the tool-result message of each of its calls behind it
C25_TrimNeverOrphansCalls ==
    \A i \in 1..Len(conversation) :
        (conversation[i].Role = "assistant" /\ conversation[i] # hist.resp) =>
            \A j \in 1..Len(conversation[i].ToolCalls) :
                \E k \in (i + 1)..Len(conversation) :
                    /\ conversation[k].Role = "tool"
                    /\ conversation[k].ToolCallID = conversation[i].ToolCalls[j].ID

\* The trim has fired and cut one call/result pair apart, keeping the result as
\* the first message, while a later assistant message with a tool call was
\* retained together with its result
C25_Witness ==
    /\ JustAfterUserAppend
    /\ hist.trimmed
    /\ conversation[1].Role = "tool"
    /\ \E i \in 2..10 :
          /\ conversation[i].Role = "assistant"
          /\ Len(conversation[i].ToolCalls) = 1
          /\ conversation[i + 1].Role = "tool"
          /\ conversation[i + 1].ToolCallID = conversation[i].ToolCalls[1].ID

=============================================================================
